---- MODULE Spec2Model ----
(***************************************************************************)
(* The three Azure DevOps entry points of the repository as one state      *)
(* machine: get_sprint_work_items.py, get_team_prs.py and get_pr_diff.py.  *)
(* One run of one script is one behaviour: Init draws the script, the      *)
(* environment (AZURE_DEVOPS_PAT) and the command line, every network call *)
(* is one action whose response is drawn from what the backend can answer. *)
(* The HTTP transport is the environment: a call either returns a decoded  *)
(* JSON body, raises urllib.error.HTTPError or raises                      *)
(* urllib.error.URLError.                                                  *)
(***************************************************************************)
EXTENDS Integers, Sequences, FiniteSets, TLC

VARIABLES
    script,        \* which entry point runs: "sprint", "prs" or "diff"
    pc,            \* position of main()
    pat,           \* os.environ.get("AZURE_DEVOPS_PAT")
    args,          \* the parsed command line
    calls,         \* every urlopen() issued so far, with its outcome
    stdout,        \* the documents printed so far
    exitCode,      \* the process exit code (meaningful once pc = "done")
    uncaught,      \* TRUE when the run ended by an exception nobody caught
    iteration,     \* get_sprint_work_items.main: iteration
    ids,           \* query_work_items: ids
    i,             \* query_work_items: loop variable of the batch loop
    work_items,    \* query_work_items: work_items
    repos,         \* get_team_prs.main: repos
    r,             \* get_team_prs.main: number of repositories already handled
    all_prs,       \* get_team_prs.main: all_prs
    pr,            \* get_pr_diff.main: pr
    changes,       \* get_pr_diff.main: changes
    diff_summary,  \* get_pr_diff.main: diff_summary
    iteration_id,  \* get_pr_diff.main: iteration_id
    changed_files, \* get_pr_diff.main: changed_files
    c              \* get_pr_diff.main: number of changes already handled

vars == <<script, pc, pat, args, calls, stdout, exitCode, uncaught,
          iteration, ids, i, work_items, repos, r, all_prs,
          pr, changes, diff_summary, iteration_id, changed_files, c>>

sprintVars == <<iteration, ids, i, work_items>>
prsVars == <<repos, r, all_prs>>
diffVars == <<pr, changes, diff_summary, iteration_id, changed_files, c>>

----------------------------------------------------------------------------
(* Bounds of the model.                                                    *)

\* The largest number of identifiers a WIQL answer carries.
MaxIds == 401
\* The largest number of repositories of a project.
MaxRepos == 2
\* The clock: timestamps count ticks, TicksPerDay of them make a day, and Now
\* is the moment the run computes ages.
TicksPerDay == 2
Now == 19

(* Program constants.                                                      *)

\* The batch size of query_work_items (range(0, len(ids), 200)).
ChunkSize == 200

----------------------------------------------------------------------------
(* Python values.                                                          *)

\* None, and a value that is present.
None == [t |-> "none"]
Some(v) == [t |-> "some", v |-> v]

\* Python's truth value of an optional string (None and "" are false).
Truthy(o) == o.t = "some" /\ o.v # ""

\* `not pat` of the three main() functions.
NotPatNoneOnly(p) == p = None
NotPat(p) == ~Truthy(p)

Min(a, b) == IF a < b THEN a ELSE b

\* A timestamp field of a JSON record: the key is absent, null, the empty
\* string, an ISO-8601 string of the moment `at`, or a string that is no date.
Absent == [t |-> "absent", at |-> 0]
Null == [t |-> "null", at |-> 0]
EmptyStr == [t |-> "empty", at |-> 0]
BadDate == [t |-> "bad", at |-> 0]
Iso(at) == [t |-> "iso", at |-> at]

\* (now - then).days of datetime: whole days, rounded down.
Days(then) == (Now - then) \div TicksPerDay

\* The environment's answer to one call.
HttpError == [ok |-> FALSE, exc |-> "HTTPError"]
UrlError == [ok |-> FALSE, exc |-> "URLError"]
Failures == {HttpError, UrlError}

\* The error document of the PAT check and of api_request.
ErrorDoc(msg) == [kind |-> "error", message |-> msg]

Org == "contoso"
Project == "payments"
Team == "Platform Team"

----------------------------------------------------------------------------
(* get_sprint_work_items.py                                                *)

\* The iterations the backend may list as current for the team.
ItA == [name |-> "Sprint 1", path |-> Some("payments/Sprint 1")]
ItB == [name |-> "Sprint 2", path |-> Some("payments/Sprint 2")]

\* The answers to the teamsettings/iterations call.
IterationResponses ==
    Failures \cup
    { [ok |-> TRUE, value |-> v] :
        v \in {<<>>, <<ItA>>, <<ItB>>, <<ItA, ItB>>, <<ItB, ItA>>} }

\* get_current_iteration: None on an error and on an empty list, else the
\* first iteration of the list.
get_current_iteration(result) ==
    IF ~result.ok THEN None
    ELSE IF result.value # <<>> THEN Some(result.value[1])
    ELSE None

\* `not iteration` of main().
NotIterationNever(it) == FALSE
NotIteration(it) == it = None

\* iteration.get("path", "") and iteration.get("name", "").
IterationPath(it) ==
    IF it = None \/ it.v.path = None THEN "" ELSE it.v.path.v
IterationName(it) == IF it = None THEN "" ELSE it.v.name

\* The assignee clause of the WIQL query.
AssigneeClause(unassigned, assigned_to) ==
    IF unassigned
    THEN <<[field |-> "System.AssignedTo", op |-> "= '' OR IS NULL", value |-> ""]>>
    ELSE IF Truthy(assigned_to)
    THEN <<[field |-> "System.AssignedTo", op |-> "=", value |-> assigned_to.v]>>
    ELSE <<>>

\* The WIQL query of query_work_items: its WHERE clauses and its ORDER BY keys.
Wiql(project, team, iteration_path, unassigned, assigned_to) ==
    [where |->
        << [field |-> "System.TeamProject", op |-> "=", value |-> project],
           [field |-> "System.AreaPath", op |-> "UNDER", value |-> team],
           [field |-> "System.IterationPath", op |-> "=", value |-> iteration_path],
           [field |-> "System.WorkItemType", op |-> "IN",
            value |-> "'Product Backlog Item', 'Spike'"] >>
        \o AssigneeClause(unassigned, assigned_to),
     orderBy |->
        << [field |-> "Microsoft.VSTS.Common.BacklogPriority", dir |-> "ASC"] >>]

\* The numbers of identifiers a WIQL answer carries in the model: the sizes
\* around the multiples of the batch size, and the largest.
IdCounts ==
    { n \in 0..MaxIds : n % ChunkSize \in {0, 1, ChunkSize - 1} } \cup {MaxIds}

\* The identifiers of a WIQL answer, in the order the backend sorted them.
IdList(n, order) ==
    [k \in 1..n |-> IF order = "asc" THEN k ELSE n + 1 - k]

WiqlResponses ==
    Failures \cup
    { [ok |-> TRUE, workItems |-> IdList(n, order)] :
        n \in IdCounts, order \in {"asc", "desc"} }

\* The changed dates of the backend's work items.
ChangedDates ==
    <<Iso(Now), Absent, Null, Iso(3), BadDate, EmptyStr, Iso(Now - 7), Iso(4)>>

\* The record the backend holds for a work item.
WorkItem(id) ==
    [id |-> id, changedDate |-> ChangedDates[(id % Len(ChangedDates)) + 1]]

\* ids[i:i+200]
BatchIdsOverlap(list, from) ==
    SubSeq(list, from + 1, Min(from + ChunkSize + 1, Len(list)))
BatchIds(list, from) ==
    SubSeq(list, from + 1, Min(from + ChunkSize, Len(list)))

\* The answers to a workitems call: a failure, every record, or every record
\* but the first (a work item that no longer exists is left out).
BatchResponses(batch_ids) ==
    Failures \cup
    { [ok |-> TRUE, value |-> [k \in 1..Len(b) |-> WorkItem(b[k])]] :
        b \in {batch_ids, Tail(batch_ids)} }

\* The days-since-change computation of format_work_item.
DaysSinceChange(changedDate) ==
    IF changedDate.t \in {"absent", "null", "empty"} THEN None
    ELSE IF changedDate.t = "bad" THEN None
    ELSE Some(Days(changedDate.at))

format_work_item(wi, org, project) ==
    [id |-> wi.id,
     daysSinceChange |-> DaysSinceChange(wi.changedDate),
     webUrl |-> <<"https://dev.azure.com", org, project, "_workitems", "edit", wi.id>>]

\* get_current_iteration and the check of its result in main().
ResolveIteration ==
    /\ script = "sprint" /\ pc = "iteration"
    /\ \E resp \in IterationResponses :
        LET it == get_current_iteration(resp) IN
        /\ calls' = Append(calls, [kind |-> "iterations", team |-> args.team,
                                   ok |-> resp.ok, resp |-> resp])
        /\ IF NotIteration(it)
           THEN /\ stdout' = Append(stdout,
                      ErrorDoc("Could not find current iteration for team"))
                /\ exitCode' = 1
                /\ pc' = "done"
                /\ UNCHANGED iteration
           ELSE /\ iteration' = it
                /\ pc' = "wiql"
                /\ UNCHANGED <<stdout, exitCode>>
    /\ UNCHANGED <<script, pat, args, uncaught, ids, i, work_items>>
    /\ UNCHANGED <<prsVars, diffVars>>

\* query_work_items up to its batch loop: the WIQL POST and the two early
\* returns.
QueryWiql ==
    /\ script = "sprint" /\ pc = "wiql"
    /\ \E resp \in WiqlResponses :
        /\ calls' = Append(calls,
              [kind |-> "wiql",
               query |-> Wiql(Project, Team, IterationPath(iteration),
                              args.unassigned, args.assigned_to),
               ok |-> resp.ok, resp |-> IF resp.ok THEN [ok |-> TRUE] ELSE resp])
        /\ IF ~resp.ok \/ resp.workItems = <<>>
           THEN /\ pc' = "output"
                /\ UNCHANGED <<ids, i>>
           ELSE /\ ids' = resp.workItems
                /\ i' = 0
                /\ pc' = "batch"
    /\ work_items' = <<>>
    /\ UNCHANGED <<script, pat, args, stdout, exitCode, uncaught, iteration>>
    /\ UNCHANGED <<prsVars, diffVars>>

\* One round of the batch loop of query_work_items.
FetchBatch ==
    /\ script = "sprint" /\ pc = "batch"
    /\ LET batch_ids == BatchIds(ids, i) IN
       \E resp \in BatchResponses(batch_ids) :
        /\ calls' = Append(calls,
              [kind |-> "workitems", ids |-> batch_ids,
               ok |-> resp.ok, resp |-> IF resp.ok THEN [ok |-> TRUE] ELSE resp])
        /\ work_items' = IF resp.ok THEN work_items \o resp.value ELSE work_items
    /\ i' = i + ChunkSize
    /\ pc' = IF i + ChunkSize < Len(ids) THEN "batch" ELSE "output"
    /\ UNCHANGED <<script, pat, args, stdout, exitCode, uncaught, iteration, ids>>
    /\ UNCHANGED <<prsVars, diffVars>>

\* The end of main(): format the records and print the success document.
PrintWorkItems ==
    /\ script = "sprint" /\ pc = "output"
    /\ stdout' = Append(stdout,
          [kind |-> "success",
           iteration |-> [name |-> IterationName(iteration),
                          path |-> IterationPath(iteration)],
           count |-> Len(work_items),
           workItems |-> [k \in 1..Len(work_items) |->
                            format_work_item(work_items[k], Org, Project)]])
    /\ exitCode' = 0
    /\ pc' = "done"
    /\ UNCHANGED <<script, pat, args, calls, uncaught, sprintVars>>
    /\ UNCHANGED <<prsVars, diffVars>>

----------------------------------------------------------------------------
(* get_team_prs.py                                                         *)

\* Identifiers (GUIDs) are sequences of characters; str.lower() maps the
\* letters of a GUID to lower case and leaves every other character alone.
LowerChar(ch) ==
    CASE ch = "A" -> "a" [] ch = "B" -> "b" [] ch = "C" -> "c"
      [] ch = "D" -> "d" [] ch = "E" -> "e" [] ch = "F" -> "f"
      [] OTHER -> ch
Lower(str) == [k \in 1..Len(str) |-> LowerChar(str[k])]

\* Python's truth value of an optional identifier.
TruthyId(o) == o.t = "some" /\ o.v # <<>>

\* d.get("id", ""): the empty string when the key is absent.
GetId(o) == IF o = None THEN <<>> ELSE o.v

TeamId == <<"a", "b", "-", "1">>
UserId == <<"c", "d", "-", "2">>
AuthorId == <<"e", "f", "-", "3">>

\* The pull requests the backend may list for a repository. Their creation
\* dates are ISO dates, null or absent: none makes calculate_age_days raise.
Pr1 == [pullRequestId |-> 1,
        reviewers |-> << [id |-> Some(<<"A", "B", "-", "1">>)] >>,
        createdBy |-> Some(<<"E", "F", "-", "3">>),
        creationDate |-> Absent,
        projectName |-> "payments"]
Pr2 == [pullRequestId |-> 2,
        reviewers |-> << [id |-> Some(<<"a", "b", "-", "1">>)],
                         [id |-> Some(<<"C", "D", "-", "2">>)] >>,
        createdBy |-> Some(<<"a", "a", "-", "9">>),
        creationDate |-> Iso(5),
        projectName |-> "payments"]
Pr3 == [pullRequestId |-> 3,
        reviewers |-> << [id |-> None],
                         [id |-> Some(<<"c", "d", "-", "2">>)] >>,
        createdBy |-> Some(<<"e", "f", "-", "3">>),
        creationDate |-> Iso(15),
        projectName |-> "payments"]
Pr4 == [pullRequestId |-> 4,
        reviewers |-> << [id |-> Some(<<"b", "b", "-", "7">>)],
                         [id |-> Some(<<"A", "b", "-", "1">>)] >>,
        createdBy |-> None,
        creationDate |-> Null,
        projectName |-> "payments"]

\* The sequences a pullrequests call may return: the pull requests of the
\* repository in one of two orders.
PrOrders == {<<Pr1, Pr2, Pr3, Pr4>>, <<Pr4, Pr3, Pr2, Pr1>>}
RECURSIVE Keep(_, _)
Keep(list, picked) ==
    IF list = <<>> THEN <<>>
    ELSE IF Head(list).pullRequestId \in picked
         THEN <<Head(list)>> \o Keep(Tail(list), picked)
         ELSE Keep(Tail(list), picked)
PrLists == { Keep(order, picked) : order \in PrOrders, picked \in SUBSET (1..4) }

PrResponses == Failures \cup { [ok |-> TRUE, value |-> v] : v \in PrLists }

\* The repositories of the project: the k-th has identifier k.
Repo(k) == [id |-> k, name |-> <<"repo", k>>]
RepoResponses ==
    Failures \cup
    { [ok |-> TRUE, value |-> [k \in 1..n |-> Repo(k)]] : n \in 0..MaxRepos }

\* The loop over the reviewers of one pull request in filter_prs_by_reviewer:
\* what it appends to `filtered`.
RECURSIVE ScanReviewersNoBreak(_, _, _)
ScanReviewersNoBreak(p, reviewers, reviewer_ids) ==
    IF reviewers = <<>> THEN <<>>
    ELSE IF Lower(GetId(Head(reviewers).id)) \in reviewer_ids
         THEN <<p>> \o ScanReviewersNoBreak(p, Tail(reviewers), reviewer_ids)
         ELSE ScanReviewersNoBreak(p, Tail(reviewers), reviewer_ids)
RECURSIVE ScanReviewers(_, _, _)
ScanReviewers(p, reviewers, reviewer_ids) ==
    IF reviewers = <<>> THEN <<>>
    ELSE IF Lower(GetId(Head(reviewers).id)) \in reviewer_ids
         THEN <<p>>
         ELSE ScanReviewers(p, Tail(reviewers), reviewer_ids)

\* reviewer_ids of filter_prs_by_reviewer.
ReviewerIds(team_id, user_id) ==
    {Lower(team_id)} \cup (IF TruthyId(user_id) THEN {Lower(user_id.v)} ELSE {})

RECURSIVE FilterLoop(_, _)
FilterLoop(prs, reviewer_ids) ==
    IF prs = <<>> THEN <<>>
    ELSE ScanReviewers(Head(prs), Head(prs).reviewers, reviewer_ids)
         \o FilterLoop(Tail(prs), reviewer_ids)

RECURSIVE FilterLoopNoBreak(_, _)
FilterLoopNoBreak(prs, reviewer_ids) ==
    IF prs = <<>> THEN <<>>
    ELSE ScanReviewersNoBreak(Head(prs), Head(prs).reviewers, reviewer_ids)
         \o FilterLoopNoBreak(Tail(prs), reviewer_ids)

FilterPrsNoBreak(prs, team_id, user_id) ==
    FilterLoopNoBreak(prs, ReviewerIds(team_id, user_id))
filter_prs_by_reviewer(prs, team_id, user_id) ==
    FilterLoop(prs, ReviewerIds(team_id, user_id))

\* The author filter of main().
RECURSIVE ExcludeAuthorCaseSensitive(_, _)
ExcludeAuthorCaseSensitive(prs, exclude_author) ==
    IF ~TruthyId(exclude_author) THEN prs
    ELSE IF prs = <<>> THEN <<>>
    ELSE IF GetId(Head(prs).createdBy) # exclude_author.v
         THEN <<Head(prs)>> \o ExcludeAuthorCaseSensitive(Tail(prs), exclude_author)
         ELSE ExcludeAuthorCaseSensitive(Tail(prs), exclude_author)
RECURSIVE ExcludeAuthor(_, _)
ExcludeAuthor(prs, exclude_author) ==
    IF ~TruthyId(exclude_author) THEN prs
    ELSE IF prs = <<>> THEN <<>>
    ELSE IF Lower(GetId(Head(prs).createdBy)) # Lower(exclude_author.v)
         THEN <<Head(prs)>> \o ExcludeAuthor(Tail(prs), exclude_author)
         ELSE ExcludeAuthor(Tail(prs), exclude_author)

\* calculate_age_days: 0 for a date that is None or empty; a string that is
\* no ISO date makes datetime.fromisoformat raise ValueError.
calculate_age_days(date_str) ==
    IF date_str.t \in {"absent", "null", "empty"} THEN [raised |-> FALSE, v |-> 0]
    ELSE IF date_str.t = "bad" THEN [raised |-> TRUE, v |-> 0]
    ELSE [raised |-> FALSE, v |-> Days(date_str.at)]

format_pr(p, repo_name) ==
    [id |-> p.pullRequestId,
     repository |-> repo_name,
     createdDate |-> p.creationDate,
     ageDays |-> calculate_age_days(p.creationDate).v,
     webUrl |-> <<"https://dev.azure.com", p.projectName, p.projectName,
                  "_git", repo_name, "pullrequest", p.pullRequestId>>]

\* list.sort(key=lambda x: x["ageDays"], reverse=True): a stable sort, the
\* largest age first.
RECURSIVE InsertByAge(_, _)
InsertByAge(sorted, x) ==
    IF sorted = <<>> THEN <<x>>
    ELSE IF Head(sorted).ageDays >= x.ageDays
         THEN <<Head(sorted)>> \o InsertByAge(Tail(sorted), x)
         ELSE <<x>> \o sorted
RECURSIVE SortLoop(_, _)
SortLoop(sorted, rest) ==
    IF rest = <<>> THEN sorted
    ELSE SortLoop(InsertByAge(sorted, Head(rest)), Tail(rest))
NoSort(list) == list
SortByAgeDesc(list) == SortLoop(<<>>, list)

\* api_request of get_pr_diff.py and of get_team_prs.py on a failed call:
\* HTTPError prints the error document and calls sys.exit(1), URLError is
\* not caught.
ApiFailureDocs(resp) ==
    IF resp = HttpError THEN <<ErrorDoc("HTTPError")>> ELSE <<>>

\* The common end of a main() call whose api_request failed.
ApiAbort(resp) ==
    /\ stdout' = stdout \o ApiFailureDocs(resp)
    /\ uncaught' = (resp = UrlError)
    /\ exitCode' = 1
    /\ pc' = "done"

\* get_repositories.
GetRepositories ==
    /\ script = "prs" /\ pc = "repos"
    /\ \E resp \in RepoResponses :
        /\ calls' = Append(calls, [kind |-> "repositories", ok |-> resp.ok,
                                   resp |-> resp])
        /\ IF resp.ok
           THEN /\ repos' = resp.value
                /\ pc' = IF resp.value = <<>> THEN "output" ELSE "repo"
                /\ UNCHANGED <<stdout, exitCode, uncaught>>
           ELSE /\ ApiAbort(resp)
                /\ UNCHANGED repos
    /\ r' = 0
    /\ all_prs' = <<>>
    /\ UNCHANGED <<script, pat, args, sprintVars, diffVars>>

\* One round of the loop over the repositories in main().
FetchRepoPrs ==
    /\ script = "prs" /\ pc = "repo"
    /\ LET repo == repos[r + 1] IN
       \E resp \in PrResponses :
        /\ calls' = Append(calls, [kind |-> "pullrequests", repo_id |-> repo.id,
                                   ok |-> resp.ok, resp |-> resp])
        /\ IF resp.ok
           THEN LET filtered_prs ==
                        ExcludeAuthor(
                            filter_prs_by_reviewer(resp.value, args.team_id,
                                                   args.user_id),
                            args.exclude_author)
                IN
                /\ all_prs' = all_prs \o
                       [k \in 1..Len(filtered_prs) |->
                            format_pr(filtered_prs[k], repo.name)]
                /\ r' = r + 1
                /\ pc' = IF r + 1 < Len(repos) THEN "repo" ELSE "output"
                /\ UNCHANGED <<stdout, exitCode, uncaught>>
           ELSE /\ ApiAbort(resp)
                /\ UNCHANGED <<all_prs, r>>
    /\ UNCHANGED <<script, pat, args, repos, sprintVars, diffVars>>

\* The end of main(): sort and print the success document.
PrintPrs ==
    /\ script = "prs" /\ pc = "output"
    /\ all_prs' = SortByAgeDesc(all_prs)
    /\ stdout' = Append(stdout,
          [kind |-> "success",
           count |-> Len(all_prs),
           pullRequests |-> SortByAgeDesc(all_prs)])
    /\ exitCode' = 0
    /\ pc' = "done"
    /\ UNCHANGED <<script, pat, args, calls, uncaught, repos, r>>
    /\ UNCHANGED <<sprintVars, diffVars>>

----------------------------------------------------------------------------
(* get_pr_diff.py                                                          *)

\* The pull request the backend may answer with: its last merge commits may
\* be missing.
PrDetails ==
    { [pullRequestId |-> 7, source |-> s, target |-> t] :
        s \in {None, Some("c0ffee")}, t \in {None, Some("decade")} }
PrDetailResponses == Failures \cup { [ok |-> TRUE, value |-> d] : d \in PrDetails }

PrIterationResponses ==
    Failures \cup
    { [ok |-> TRUE, value |-> v] : v \in {<<>>, <<[id |-> 1], [id |-> 2]>>} }

ChA == [path |-> "/src/a.py", changeType |-> "add"]
ChB == [path |-> "/src/b.py", changeType |-> "edit"]
ChangeResponses ==
    Failures \cup
    { [ok |-> TRUE, changeEntries |-> v] :
        v \in {<<>>, <<ChA>>, <<ChB>>, <<ChA, ChB>>, <<ChB, ChA>>} }

CommitDiffResponses ==
    Failures \cup {[ok |-> TRUE, aheadCount |-> 3, behindCount |-> 1]}

ContentResponses == Failures \cup {[ok |-> TRUE, content |-> "text"]}

\* get_pr_details.
GetPrDetails ==
    /\ script = "diff" /\ pc = "details"
    /\ \E resp \in PrDetailResponses :
        /\ calls' = Append(calls, [kind |-> "pr_details", ok |-> resp.ok,
                                   resp |-> resp])
        /\ IF resp.ok
           THEN /\ pr' = resp.value
                /\ pc' = "pr_iterations"
                /\ UNCHANGED <<stdout, exitCode, uncaught>>
           ELSE /\ ApiAbort(resp)
                /\ UNCHANGED pr
    /\ UNCHANGED <<script, pat, args, changes, diff_summary, iteration_id,
                   changed_files, c>>
    /\ UNCHANGED <<sprintVars, prsVars>>

\* get_pr_iterations and the check for an empty list in main().
GetPrIterations ==
    /\ script = "diff" /\ pc = "pr_iterations"
    /\ \E resp \in PrIterationResponses :
        /\ calls' = Append(calls, [kind |-> "pr_iterations", ok |-> resp.ok,
                                   resp |-> resp])
        /\ IF ~resp.ok
           THEN /\ ApiAbort(resp)
                /\ UNCHANGED iteration_id
           ELSE IF resp.value = <<>>
           THEN /\ stdout' = Append(stdout,
                      ErrorDoc("No iterations found for this PR"))
                /\ exitCode' = 1
                /\ pc' = "done"
                /\ UNCHANGED <<uncaught, iteration_id>>
           ELSE /\ iteration_id' = resp.value[Len(resp.value)].id
                /\ pc' = "changes"
                /\ UNCHANGED <<stdout, exitCode, uncaught>>
    /\ UNCHANGED <<script, pat, args, pr, changes, diff_summary, changed_files, c>>
    /\ UNCHANGED <<sprintVars, prsVars>>

\* get_iteration_changes.
GetIterationChanges ==
    /\ script = "diff" /\ pc = "changes"
    /\ \E resp \in ChangeResponses :
        /\ calls' = Append(calls, [kind |-> "changes", iteration_id |-> iteration_id,
                                   ok |-> resp.ok, resp |-> resp])
        /\ IF resp.ok
           THEN /\ changes' = resp.changeEntries
                /\ pc' = IF Truthy(pr.source) /\ Truthy(pr.target)
                         THEN "diffs" ELSE "files"
                /\ UNCHANGED <<stdout, exitCode, uncaught>>
           ELSE /\ ApiAbort(resp)
                /\ UNCHANGED changes
    /\ c' = 0
    /\ changed_files' = <<>>
    /\ diff_summary' = None
    /\ UNCHANGED <<script, pat, args, pr, iteration_id>>
    /\ UNCHANGED <<sprintVars, prsVars>>

\* get_commit_diffs, called when both merge commits are known.
GetCommitDiffs ==
    /\ script = "diff" /\ pc = "diffs"
    /\ \E resp \in CommitDiffResponses :
        /\ calls' = Append(calls, [kind |-> "commit_diffs", ok |-> resp.ok,
                                   resp |-> resp])
        /\ IF resp.ok
           THEN /\ diff_summary' = Some([aheadCount |-> resp.aheadCount,
                                         behindCount |-> resp.behindCount])
                /\ pc' = "files"
                /\ UNCHANGED <<stdout, exitCode, uncaught>>
           ELSE /\ ApiAbort(resp)
                /\ UNCHANGED diff_summary
    /\ UNCHANGED <<script, pat, args, pr, changes, iteration_id, changed_files, c>>
    /\ UNCHANGED <<sprintVars, prsVars>>

\* get_file_content: the content, or None when api_request left by
\* sys.exit(1) (the SystemExit is caught after the error document is printed).
GetFileContent(resp) == IF resp.ok THEN Some(resp.content) ELSE None

\* One round of the loop over the changes in main(), with its calls of
\* get_file_content.
FormatChange ==
    /\ script = "diff" /\ pc = "files" /\ c < Len(changes)
    /\ LET change == changes[c + 1]
           want == args.include_content
                   \/ (Truthy(args.file) /\ change.path = args.file.v)
           need1 == want /\ Truthy(pr.source)
           need2 == want /\ Truthy(pr.target)
                    /\ change.changeType \in {"edit", "delete"}
       IN
       \E o1 \in (IF need1 THEN ContentResponses ELSE {HttpError}),
          o2 \in (IF need2 THEN ContentResponses ELSE {HttpError}) :
        LET crash1 == need1 /\ o1 = UrlError
            run2 == need2 /\ ~crash1
            crash2 == run2 /\ o2 = UrlError
            call(commit, o) == [kind |-> "content", path |-> change.path,
                                version |-> commit.v, ok |-> o.ok, resp |-> o]
        IN
        /\ calls' = calls
              \o (IF need1 THEN <<call(pr.source, o1)>> ELSE <<>>)
              \o (IF run2 THEN <<call(pr.target, o2)>> ELSE <<>>)
        /\ stdout' = stdout
              \o (IF need1 THEN ApiFailureDocs(o1) ELSE <<>>)
              \o (IF run2 THEN ApiFailureDocs(o2) ELSE <<>>)
        /\ IF crash1 \/ crash2
           THEN /\ uncaught' = TRUE
                /\ exitCode' = 1
                /\ pc' = "done"
                /\ UNCHANGED <<changed_files, c>>
           ELSE /\ changed_files' = Append(changed_files,
                      [path |-> change.path,
                       changeType |-> change.changeType,
                       content |-> IF need1 THEN GetFileContent(o1) ELSE None,
                       hasContent |-> need1,
                       originalContent |-> IF need2 THEN GetFileContent(o2) ELSE None,
                       hasOriginalContent |-> need2])
                /\ c' = c + 1
                /\ UNCHANGED <<uncaught, exitCode, pc>>
    /\ UNCHANGED <<script, pat, args, pr, changes, diff_summary, iteration_id>>
    /\ UNCHANGED <<sprintVars, prsVars>>

\* [f for f in changed_files if f["path"] == args.file]
RECURSIVE OnlyFile(_, _)
OnlyFile(files, path) ==
    IF files = <<>> THEN <<>>
    ELSE IF Head(files).path = path
         THEN <<Head(files)>> \o OnlyFile(Tail(files), path)
         ELSE OnlyFile(Tail(files), path)

\* The end of main(): the --file filter and the result document.
PrintDiff ==
    /\ script = "diff" /\ pc = "files" /\ c = Len(changes)
    /\ LET files == IF Truthy(args.file)
                    THEN OnlyFile(changed_files, args.file.v)
                    ELSE changed_files
       IN
       /\ changed_files' = files
       /\ IF Truthy(args.file) /\ files = <<>>
          THEN /\ stdout' = Append(stdout, ErrorDoc("File not found in PR changes"))
               /\ exitCode' = 1
          ELSE /\ stdout' = Append(stdout,
                     [kind |-> "success",
                      pullRequest |-> pr.pullRequestId,
                      totalFiles |-> Len(files),
                      changedFiles |-> files])
               /\ exitCode' = 0
    /\ pc' = "done"
    /\ UNCHANGED <<script, pat, args, calls, uncaught, pr, changes, diff_summary,
                   iteration_id, c>>
    /\ UNCHANGED <<sprintVars, prsVars>>

----------------------------------------------------------------------------
(* The run.                                                                *)

\* The command lines of the model.
ArgsOf(s) ==
    IF s = "sprint"
    THEN { [team |-> Team, unassigned |-> u, assigned_to |-> a] :
             u \in BOOLEAN, a \in {None, Some("user@example.com")} }
    ELSE IF s = "prs"
    THEN { [team_id |-> TeamId, user_id |-> u, exclude_author |-> x] :
             u \in {None, Some(UserId)}, x \in {None, Some(AuthorId)} }
    ELSE { [file |-> f, include_content |-> ic] :
             f \in {None, Some("/src/b.py"), Some("/src/none.py")},
             ic \in BOOLEAN }

Init ==
    /\ script \in {"sprint", "prs", "diff"}
    /\ pat \in {None, Some(""), Some("pat-token")}
    /\ args \in ArgsOf(script)
    /\ pc = "start"
    /\ calls = <<>>
    /\ stdout = <<>>
    /\ exitCode = 0
    /\ uncaught = FALSE
    /\ iteration = None
    /\ ids = <<>>
    /\ i = 0
    /\ work_items = <<>>
    /\ repos = <<>>
    /\ r = 0
    /\ all_prs = <<>>
    /\ pr = None
    /\ changes = <<>>
    /\ diff_summary = None
    /\ iteration_id = 0
    /\ changed_files = <<>>
    /\ c = 0

\* The first call of each main() after the PAT check.
FirstStep(s) ==
    IF s = "sprint" THEN "iteration" ELSE IF s = "prs" THEN "repos" ELSE "details"

\* The PAT check at the head of each main().
CheckPat ==
    /\ pc = "start"
    /\ IF NotPat(pat)
       THEN /\ stdout' = Append(stdout,
                  ErrorDoc("AZURE_DEVOPS_PAT environment variable not set"))
            /\ exitCode' = 1
            /\ pc' = "done"
       ELSE /\ pc' = FirstStep(script)
            /\ UNCHANGED <<stdout, exitCode>>
    /\ UNCHANGED <<script, pat, args, calls, uncaught>>
    /\ UNCHANGED <<sprintVars, prsVars, diffVars>>

Next ==
    \/ CheckPat
    \/ ResolveIteration
    \/ QueryWiql
    \/ FetchBatch
    \/ PrintWorkItems
    \/ GetRepositories
    \/ FetchRepoPrs
    \/ PrintPrs
    \/ GetPrDetails
    \/ GetPrIterations
    \/ GetIterationChanges
    \/ GetCommitDiffs
    \/ FormatChange
    \/ PrintDiff

Spec == Init /\ [][Next]_vars

----------------------------------------------------------------------------
(* Properties.                                                             *)

Done == pc = "done"
CallsOf(kind) == SelectSeq(calls, LAMBDA x : x.kind = kind)
LastDoc == stdout[Len(stdout)]
EndsInError == exitCode # 0 /\ stdout # <<>> /\ LastDoc.kind = "error"
EndsInSuccess == exitCode = 0 /\ stdout # <<>> /\ LastDoc.kind = "success"

RECURSIVE Flatten(_)
Flatten(lists) ==
    IF lists = <<>> THEN <<>> ELSE Head(lists) \o Flatten(Tail(lists))

\* The identifier lists of the item-detail requests issued so far.
BatchRequestIds ==
    LET reqs == CallsOf("workitems") IN [k \in 1..Len(reqs) |-> reqs[k].ids]

WiqlAnswered == \E k \in DOMAIN calls : calls[k].kind = "wiql" /\ calls[k].ok

\* C1: when the WIQL query returns N >= 0 identifiers, the batch loop issues
\* exactly ceil(N/200) item-detail requests of at most 200 identifiers each,
\* which together carry every identifier once and in input order; for N = 0
\* no request is issued and the result is empty; at most N records come back.
C1_BatchRequests ==
    script = "sprint" =>
        /\ \A k \in DOMAIN BatchRequestIds : Len(BatchRequestIds[k]) <= 200
        /\ (WiqlAnswered /\ pc \in {"output", "done"}) =>
            /\ Len(BatchRequestIds) = (Len(ids) + 199) \div 200
            /\ Flatten(BatchRequestIds) = ids
            /\ Len(work_items) <= Len(ids)
            /\ (ids = <<>> => BatchRequestIds = <<>> /\ work_items = <<>>)
            /\ (Done => EndsInSuccess /\ LastDoc.count <= Len(ids))

\* A finished run whose 201 identifiers went out in two requests.
C1_Witness ==
    /\ script = "sprint" /\ Done
    /\ Len(ids) = 201
    /\ Len(BatchRequestIds) = 2
    /\ LastDoc.count = 200

\* C2: if the request of any one chunk fails, the fetch as a whole fails with
\* that error: the run never ends with a success payload built from only
\* some of the chunks.
C2_ChunkFailureFailsFetch ==
    (/\ script = "sprint" /\ Done
     /\ \E k \in DOMAIN calls : calls[k].kind = "workitems" /\ ~calls[k].ok)
    => EndsInError

\* C3: when the pull-request query of one repository fails, every remaining
\* repository is still queried and the run ends with the pull requests of
\* the repositories that answered, the failure recorded as a partial failure.
C3_RepoFailureIsPartial ==
    (/\ script = "prs" /\ Done
     /\ \E k \in DOMAIN calls : calls[k].kind = "pullrequests" /\ ~calls[k].ok)
    => /\ Len(CallsOf("pullrequests")) = Len(repos)
       /\ stdout # <<>>
       /\ LastDoc.kind = "success"

\* C4: unassigned = true together with a non-empty assigned-to value is
\* rejected with an error, and no query or item-detail request is sent.
C4_ContradictoryFiltersRejected ==
    (script = "sprint" /\ args.unassigned /\ args.assigned_to # None)
    => /\ \A k \in DOMAIN calls : calls[k].kind \notin {"wiql", "workitems"}
       /\ (Done => EndsInError)

\* C5: when AZURE_DEVOPS_PAT is absent or empty, each entry point ends with
\* the error payload and a non-zero exit code, and issues no network call.
C5_NoPatNoCall ==
    (pat = None \/ pat = Some("")) =>
        /\ calls = <<>>
        /\ pc \in {"start", "done"}
        /\ Done => /\ exitCode # 0
                   /\ ~uncaught
                   /\ Len(stdout) = 1
                   /\ stdout[1].kind = "error"

\* A run with an empty PAT that has ended.
C5_Witness == Done /\ pat = Some("") /\ calls = <<>> /\ exitCode = 1

\* C6: if the WIQL POST fails, the run ends with the error payload and a
\* non-zero exit code, never with a success payload of count 0.
C6_WiqlFailureSurfaced ==
    (/\ script = "sprint" /\ Done
     /\ \E k \in DOMAIN calls : calls[k].kind = "wiql" /\ ~calls[k].ok)
    => EndsInError

\* Case-insensitive equality of two identifiers.
SameId(a, b) ==
    Len(a) = Len(b) /\ \A k \in 1..Len(a) : LowerChar(a[k]) = LowerChar(b[k])

\* The pull request has a reviewer whose identifier is the team's or the
\* user's.
ReviewerMatch(p) ==
    \E j \in DOMAIN p.reviewers :
        /\ p.reviewers[j].id # None
        /\ \/ SameId(p.reviewers[j].id.v, args.team_id)
           \/ args.user_id # None /\ SameId(p.reviewers[j].id.v, args.user_id.v)

\* The pull request's author is the excluded one.
AuthorExcluded(p) ==
    /\ args.exclude_author # None
    /\ p.createdBy # None
    /\ SameId(p.createdBy.v, args.exclude_author.v)

\* How often the output lists pull request `id` of repository `name`.
Occurrences(out, name, id) ==
    Cardinality({k \in DOMAIN out : out[k].repository = name /\ out[k].id = id})

\* The run issued its calls and every one of them succeeded.
AllCallsOk == calls # <<>> /\ \A k \in DOMAIN calls : calls[k].ok

\* The output of a finished run lists each pull request of each answer once
\* when `wanted` holds of it and not at all otherwise, and nothing else.
OutputIsExactly(wanted(_)) ==
    LET out == LastDoc.pullRequests
        answers == CallsOf("pullrequests")
    IN
    /\ EndsInSuccess
    /\ Len(answers) = Len(repos)
    /\ \A k \in DOMAIN answers :
        \A j \in DOMAIN answers[k].resp.value :
            LET p == answers[k].resp.value[j] IN
            Occurrences(out, repos[k].name, p.pullRequestId)
                = IF wanted(p) THEN 1 ELSE 0
    /\ \A k \in DOMAIN out :
        \E n \in DOMAIN answers :
            /\ repos[n].name = out[k].repository
            /\ \E j \in DOMAIN answers[n].resp.value :
                answers[n].resp.value[j].pullRequestId = out[k].id
    /\ LastDoc.count = Len(out)

\* C7 as stated: when every call succeeds, the output contains a pull request
\* exactly when one of its reviewers is the team or the user (compared
\* case-insensitively), each one once.
C7_OutputIsReviewerMatches ==
    (script = "prs" /\ Done /\ AllCallsOk) => OutputIsExactly(ReviewerMatch)

KeptPr(p) == ReviewerMatch(p) /\ ~AuthorExcluded(p)

\* C7 as amended: when every call succeeds, the output contains a pull
\* request exactly when one of its reviewers is the team or the user
\* (compared case-insensitively) and its author is not the excluded author,
\* each one once; an empty repository list gives zero pull requests.
C7_OutputIsKeptReviewerMatches ==
    (script = "prs" /\ Done /\ AllCallsOk) =>
        /\ OutputIsExactly(KeptPr)
        /\ (repos = <<>> => LastDoc.pullRequests = <<>>)

\* A finished run that lists a pull request two of whose reviewers match.
C7_Witness ==
    /\ script = "prs" /\ Done /\ AllCallsOk
    /\ args.user_id # None
    /\ \E k \in DOMAIN LastDoc.pullRequests : LastDoc.pullRequests[k].id = 2

\* C8: a work-item query (and any item-detail request) is only issued after
\* the iterations call of the same run answered with a current iteration,
\* and the query carries that iteration's path; when no current iteration
\* is resolved the run ends with the error payload, a non-zero exit code and
\* no further request.
C8_QueryNeedsIteration ==
    script = "sprint" =>
        /\ \A k \in DOMAIN calls :
            calls[k].kind \in {"wiql", "workitems"} =>
                \E j \in 1..(k - 1) :
                    /\ calls[j].kind = "iterations"
                    /\ calls[j].ok
                    /\ calls[j].resp.value # <<>>
                    /\ calls[k].kind = "wiql" =>
                        \E n \in DOMAIN calls[k].query.where :
                            /\ calls[k].query.where[n].field = "System.IterationPath"
                            /\ calls[k].query.where[n].value
                                 = calls[j].resp.value[1].path.v
        /\ \A j \in DOMAIN calls :
            (/\ calls[j].kind = "iterations"
             /\ (~calls[j].ok \/ calls[j].resp.value = <<>>))
            => /\ Len(calls) = 1
               /\ Done
               /\ exitCode # 0
               /\ Len(stdout) = 1
               /\ stdout[1].kind = "error"

\* A run that ended because the team has no current iteration.
C8_Witness ==
    /\ script = "sprint" /\ Done
    /\ Len(calls) = 1
    /\ calls[1].ok
    /\ calls[1].resp.value = <<>>
    /\ exitCode = 1

\* C9: the pull requests of the output are ordered by age in days,
\* descending.
C9_SortedByAge ==
    (script = "prs" /\ Done /\ exitCode = 0) =>
        \A k \in 1..(Len(LastDoc.pullRequests) - 1) :
            LastDoc.pullRequests[k].ageDays >= LastDoc.pullRequests[k + 1].ageDays

\* A finished run whose oldest pull request came from the second repository
\* and is listed before a younger one of the first.
C9_Witness ==
    /\ script = "prs" /\ Done /\ exitCode = 0
    /\ Len(LastDoc.pullRequests) >= 3
    /\ LastDoc.pullRequests[1].repository = Repo(2).name
    /\ \E k \in DOMAIN LastDoc.pullRequests :
        /\ LastDoc.pullRequests[k].repository = Repo(1).name
        /\ LastDoc.pullRequests[k].ageDays < LastDoc.pullRequests[1].ageDays

\* C10: a record without timestamp is formatted with age 0: ageDays of a pull
\* request without creation date, daysSinceChange of a work item without
\* changed date.
C10_MissingTimestampAgeZero ==
    /\ (script = "prs" /\ Done /\ exitCode = 0) =>
        \A k \in DOMAIN LastDoc.pullRequests :
            LastDoc.pullRequests[k].createdDate.t \in {"absent", "null"}
                => LastDoc.pullRequests[k].ageDays = 0
    /\ (script = "sprint" /\ Done /\ exitCode = 0) =>
        \A k \in DOMAIN work_items :
            work_items[k].changedDate.t \in {"absent", "null"}
                => LastDoc.workItems[k].daysSinceChange = Some(0)

\* C11: the query orders by backlog priority ascending, ties broken by the
\* changed date descending: its ORDER BY has exactly these two keys.
C11_OrderByPriorityThenChanged ==
    \A k \in DOMAIN calls :
        calls[k].kind = "wiql" =>
            calls[k].query.orderBy
                = << [field |-> "Microsoft.VSTS.Common.BacklogPriority", dir |-> "ASC"],
                     [field |-> "System.ChangedDate", dir |-> "DESC"] >>

\* C12: a finished run has printed exactly one document, the success payload
\* or the error payload, and its exit code is non-zero exactly when that
\* document is the error payload.
C12_OneDocument ==
    Done =>
        /\ Len(stdout) = 1
        /\ (exitCode # 0) <=> (stdout[1].kind = "error")

\* C13: the web URL of a formatted pull request is built from the run's
\* organization, the project, the repository name and the pull-request
\* identifier; that of a work item from organization, project and identifier.
C13_WebUrlTemplate ==
    /\ (script = "prs" /\ Done /\ exitCode = 0) =>
        \A k \in DOMAIN LastDoc.pullRequests :
            LastDoc.pullRequests[k].webUrl
                = <<"https://dev.azure.com", Org, Project, "_git",
                    LastDoc.pullRequests[k].repository, "pullrequest",
                    LastDoc.pullRequests[k].id>>
    /\ (script = "sprint" /\ Done /\ exitCode = 0) =>
        \A k \in DOMAIN LastDoc.workItems :
            LastDoc.workItems[k].webUrl
                = <<"https://dev.azure.com", Org, Project, "_workitems", "edit",
                    LastDoc.workItems[k].id>>

\* C14: with an exclude-author identifier no pull request of that author
\* (compared case-insensitively) is in the output and every reviewer match of
\* another author still is; without one every reviewer match is in the
\* output.
C14_ExcludeAuthor ==
    (script = "prs" /\ Done /\ AllCallsOk) =>
        LET out == LastDoc.pullRequests
            answers == CallsOf("pullrequests")
        IN
        \A k \in DOMAIN answers :
            \A j \in DOMAIN answers[k].resp.value :
                LET p == answers[k].resp.value[j]
                    listed == Occurrences(out, repos[k].name, p.pullRequestId) > 0
                IN
                /\ (args.exclude_author # None
                    /\ SameId(GetId(p.createdBy), args.exclude_author.v))
                   => ~listed
                /\ (ReviewerMatch(p)
                    /\ (args.exclude_author = None
                        \/ ~SameId(GetId(p.createdBy), args.exclude_author.v)))
                   => listed

\* A finished run with an excluded author: the answer of the first repository
\* holds a reviewer match of that author, written in another case, and a
\* reviewer match of another author; only the second is listed.
C14_Witness ==
    /\ script = "prs" /\ Done /\ AllCallsOk
    /\ args.exclude_author # None
    /\ Len(calls) >= 2
    /\ calls[2].resp.value = <<Pr1, Pr2>>
    /\ Occurrences(LastDoc.pullRequests, Repo(1).name, 1) = 0
    /\ Occurrences(LastDoc.pullRequests, Repo(1).name, 2) = 1

====
